---- MODULE Spec2Model ----
(***************************************************************************)
(* Actor/learner training loop of src/algos/e3b.py (train, batch_and_learn, *)
(* learn) and src/algos/RNDxE3B.py (same control flow): the buffer pool     *)
(* with its free and full index queues, the actor processes, the learner    *)
(* threads, the learn lock and the main thread of train.                    *)
(*                                                                         *)
(* act and get_batch live in src/utils.py, which is not part of the source  *)
(* tree at hand; their steps are modelled from the specification (sections  *)
(* 4.1, 4.2, 4.3 and 5).                                                    *)
(***************************************************************************)
EXTENDS FiniteSets, Integers, Sequences, TLC

\* flags.num_buffers, flags.num_actors, flags.num_threads, flags.batch_size,
\* flags.unroll_length, flags.total_frames
NumBuffers == 1
NumActors == 2
NumThreads == 2
BatchSize == 1
UnrollLength == 1
TotalFrames == 2

\* the sentinel of free_queue.put(None)
None == -1

Slots == 0 .. (NumBuffers - 1)
Actors == 0 .. (NumActors - 1)
Threads == 0 .. (NumThreads - 1)

VARIABLES
    free_queue,          \* ctx.SimpleQueue(): slot indices and None sentinels
    full_queue,          \* ctx.SimpleQueue(): slot indices
    actorPc,             \* per actor process: position in act
    actorIndex,          \* per actor process: the index it got from free_queue
    threadPc,            \* per learner thread: position in batch_and_learn
    indices,             \* per learner thread: the indices of its batch
    lock,                \* the threading.Lock() of learn: TRUE when held
    frames,              \* nonlocal frames of train
    mainPc,              \* position of the main thread in train
    m,                   \* loop variable of the initial fill
    sent,                \* sentinels pushed by the finally clause
    interrupted,         \* KeyboardInterrupt was caught
    final_checkpoint,    \* checkpoint(frames) of the end of train wrote model.tar
    pending,             \* per slot: actor writes minus learner reads
    calc                 \* arguments and results of the one call a
                         \* sequential specification steps through

vars == <<free_queue, full_queue, actorPc, actorIndex, threadPc, indices, lock,
          frames, mainPc, m, sent, interrupted, final_checkpoint, pending,
          calc>>

poolVars == <<free_queue, full_queue, actorPc, actorIndex, threadPc, indices,
              lock, frames, mainPc, m, sent, interrupted, final_checkpoint,
              pending>>

actorVars == <<actorPc, actorIndex>>
threadVars == <<threadPc, indices, lock, frames>>
mainVars == <<mainPc, m, sent, interrupted, final_checkpoint>>

----------------------------------------------------------------------------
\* helpers over queues

RECURSIVE Count(_, _)
Count(q, x) ==
    IF q = <<>> THEN 0
    ELSE (IF Head(q) = x THEN 1 ELSE 0) + Count(Tail(q), x)

\* number of slot indices (not sentinels) in a queue
SlotEntries(q) == Cardinality({i \in 1 .. Len(q) : q[i] # None})

----------------------------------------------------------------------------
\* state after the actor processes were started (e3b.py:175-193): both
\* queues empty, every actor blocked in free_queue.get(), no thread started

PoolInit ==
    /\ free_queue = <<>>
    /\ full_queue = <<>>
    /\ actorPc = [a \in Actors |-> "acquire"]
    /\ actorIndex = [a \in Actors |-> None]
    /\ threadPc = [t \in Threads |-> "idle"]
    /\ indices = [t \in Threads |-> <<>>]
    /\ lock = FALSE
    /\ frames = 0
    /\ mainPc = "fill"
    /\ m = 0
    /\ sent = 0
    /\ interrupted = FALSE
    /\ final_checkpoint = FALSE
    /\ pending = [s \in Slots |-> 0]

\* no sequential call is stepped through next to the pool
NoCalc == [op |-> "none"]

Init == PoolInit /\ calc = NoCalc

----------------------------------------------------------------------------
\* ActorWorker (act): acquire a free slot, roll the environment out into it,
\* publish it; stop on the sentinel; die when the environment step raises

\* index = free_queue.get(); if index is None: break
ActorAcquire(a) ==
    /\ actorPc[a] = "acquire"
    /\ free_queue # <<>>
    /\ LET index == Head(free_queue) IN
         /\ free_queue' = Tail(free_queue)
         /\ IF index = None
            THEN /\ actorPc' = [actorPc EXCEPT ![a] = "stopped"]
                 /\ UNCHANGED actorIndex
            ELSE /\ actorPc' = [actorPc EXCEPT ![a] = "rollout"]
                 /\ actorIndex' = [actorIndex EXCEPT ![a] = index]
    /\ UNCHANGED <<calc, full_queue, pending, threadVars, mainVars>>

\* the T environment steps of one segment are written into the slot, then
\* full_queue.put(index)
ActorRollout(a) ==
    /\ actorPc[a] = "rollout"
    /\ pending' = [pending EXCEPT ![actorIndex[a]] = @ + 1]
    /\ full_queue' = Append(full_queue, actorIndex[a])
    /\ actorIndex' = [actorIndex EXCEPT ![a] = None]
    /\ actorPc' = [actorPc EXCEPT ![a] = "acquire"]
    /\ UNCHANGED <<calc, free_queue, threadVars, mainVars>>

\* an environment step raises: the process ends while it owns the slot
ActorFail(a) ==
    /\ actorPc[a] = "rollout"
    /\ actorPc' = [actorPc EXCEPT ![a] = "failed"]
    /\ UNCHANGED <<calc, free_queue, full_queue, actorIndex, pending, threadVars,
                   mainVars>>

ActorStep(a) == ActorAcquire(a) \/ ActorRollout(a)

----------------------------------------------------------------------------
\* BatchAssembler (get_batch): take B indices from the full queue, copy the
\* slots into the batch, give the indices back to the free queue

\* blocks until B full slots are available, then stacks their contents
\* into the batch
GetBatchAcquire(t) ==
    /\ threadPc[t] = "get_batch"
    /\ Len(full_queue) >= BatchSize
    /\ LET got == SubSeq(full_queue, 1, BatchSize) IN
         /\ indices' = [indices EXCEPT ![t] = got]
         /\ pending' = [s \in Slots |-> pending[s] - Count(got, s)]
    /\ full_queue' = SubSeq(full_queue, BatchSize + 1, Len(full_queue))
    /\ threadPc' = [threadPc EXCEPT ![t] = "release"]
    /\ UNCHANGED <<calc, free_queue, lock, frames, actorVars, mainVars>>

\* variant: get_batch returns after the copy and leaves the release of the
\* indices for later
GetBatchKeep(t) ==
    /\ threadPc[t] = "release"
    /\ threadPc' = [threadPc EXCEPT ![t] = "learn"]
    /\ UNCHANGED <<calc, free_queue, full_queue, pending, indices, lock, frames,
                   actorVars, mainVars>>

\* release(slotIndex), once per index of the batch; then learn is called
GetBatchRelease(t) ==
    /\ threadPc[t] = "release"
    /\ free_queue' = Append(free_queue, Head(indices[t]))
    /\ indices' = [indices EXCEPT ![t] = Tail(@)]
    /\ threadPc' = [threadPc EXCEPT
                      ![t] = IF Len(indices[t]) = 1 THEN "learn" ELSE "release"]
    /\ UNCHANGED <<calc, full_queue, pending, lock, frames, actorVars, mainVars>>

----------------------------------------------------------------------------
\* learn (e3b.py:34-147, RNDxE3B.py:34-166) and batch_and_learn

\* variant: the loop goes on while frames <= flags.total_frames
ThreadTestInclusive(t) ==
    /\ threadPc[t] = "test"
    /\ threadPc' = [threadPc EXCEPT
                      ![t] = IF frames <= TotalFrames THEN "get_batch"
                             ELSE "done"]
    /\ UNCHANGED <<calc, free_queue, full_queue, pending, indices, lock, frames,
                   actorVars, mainVars>>

\* while frames < flags.total_frames
ThreadTest(t) ==
    /\ threadPc[t] = "test"
    /\ threadPc' = [threadPc EXCEPT
                      ![t] = IF frames < TotalFrames THEN "get_batch" ELSE "done"]
    /\ UNCHANGED <<calc, free_queue, full_queue, pending, indices, lock, frames,
                   actorVars, mainVars>>

\* a lock that does not exclude (a lock object made anew by every call)
LearnEnterNoLock(t) ==
    /\ threadPc[t] = "learn"
    /\ lock' = TRUE
    /\ threadPc' = [threadPc EXCEPT ![t] = "forward"]
    /\ UNCHANGED <<calc, free_queue, full_queue, pending, indices, frames, actorVars,
                   mainVars>>

\* with lock: the one Lock object made when learn was defined
LearnEnter(t) ==
    /\ threadPc[t] = "learn"
    /\ lock = FALSE
    /\ lock' = TRUE
    /\ threadPc' = [threadPc EXCEPT ![t] = "forward"]
    /\ UNCHANGED <<calc, free_queue, full_queue, pending, indices, frames, actorVars,
                   mainVars>>

\* model forward passes, V-trace and the losses (inside the with block)
LearnForward(t) ==
    /\ threadPc[t] = "forward"
    /\ threadPc' = [threadPc EXCEPT ![t] = "optimize"]
    /\ UNCHANGED <<calc, free_queue, full_queue, pending, indices, lock, frames,
                   actorVars, mainVars>>

\* scheduler.step() ... optimizer.step()
LearnOptimize(t) ==
    /\ threadPc[t] = "optimize"
    /\ threadPc' = [threadPc EXCEPT ![t] = "publish"]
    /\ UNCHANGED <<calc, free_queue, full_queue, pending, indices, lock, frames,
                   actorVars, mainVars>>

\* actor_model.load_state_dict(...); return stats (leaves the with block)
LearnPublish(t) ==
    /\ threadPc[t] = "publish"
    /\ lock' = FALSE
    /\ threadPc' = [threadPc EXCEPT ![t] = "log"]
    /\ UNCHANGED <<calc, free_queue, full_queue, pending, indices, frames, actorVars,
                   mainVars>>

\* with lock: plogger.log(to_log); frames += unroll_length * batch_size
LogAndCount(t) ==
    /\ threadPc[t] = "log"
    /\ frames' = frames + UnrollLength * BatchSize
    /\ threadPc' = [threadPc EXCEPT ![t] = "test"]
    /\ UNCHANGED <<calc, free_queue, full_queue, pending, indices, lock, actorVars,
                   mainVars>>

ThreadStep(t) ==
    \/ ThreadTest(t)
    \/ GetBatchAcquire(t)
    \/ GetBatchRelease(t)
    \/ LearnEnter(t)
    \/ LearnForward(t)
    \/ LearnOptimize(t)
    \/ LearnPublish(t)
    \/ LogAndCount(t)

----------------------------------------------------------------------------
\* the main thread of train (e3b.py:219-284, RNDxE3B.py:239-312)

\* the fill puts every index twice
MainFillTwice ==
    /\ mainPc = "fill"
    /\ m < NumBuffers
    /\ free_queue' = free_queue \o <<m, m>>
    /\ m' = m + 1
    /\ mainPc' = IF m + 1 = NumBuffers THEN "start" ELSE "fill"
    /\ UNCHANGED <<calc, full_queue, pending, sent, interrupted, final_checkpoint,
                   actorVars, threadVars>>

\* for m in range(flags.num_buffers): free_queue.put(m)
MainFill ==
    /\ mainPc = "fill"
    /\ m < NumBuffers
    /\ free_queue' = Append(free_queue, m)
    /\ m' = m + 1
    /\ mainPc' = IF m + 1 = NumBuffers THEN "start" ELSE "fill"
    /\ UNCHANGED <<calc, full_queue, pending, sent, interrupted, final_checkpoint,
                   actorVars, threadVars>>

\* for i in range(flags.num_threads): thread.start()
MainStartThread ==
    /\ mainPc = "start"
    /\ LET i == CHOOSE t \in Threads :
                  threadPc[t] = "idle" /\ \A u \in Threads : u < t => threadPc[u] # "idle"
       IN /\ threadPc' = [threadPc EXCEPT ![i] = "test"]
          /\ mainPc' = IF i = NumThreads - 1 THEN "wait" ELSE "start"
    /\ UNCHANGED <<calc, free_queue, full_queue, pending, indices, lock, frames, m, sent,
                   interrupted, final_checkpoint, actorVars>>

\* one turn of while frames < flags.total_frames: time.sleep(5), the
\* periodic checkpoint when the save interval has passed, the log line; the
\* contents of the checkpoint file are not part of the state
MainLoopTurn ==
    /\ mainPc = "wait"
    /\ frames < TotalFrames
    /\ UNCHANGED vars

\* the loop test fails: the else clause is entered
MainLoopExit ==
    /\ mainPc = "wait"
    /\ frames >= TotalFrames
    /\ mainPc' = "join"
    /\ UNCHANGED <<calc, free_queue, full_queue, pending, m, sent, interrupted,
                   final_checkpoint, actorVars, threadVars>>

\* except KeyboardInterrupt: return (the finally clause runs before the return)
KeyboardInterrupt ==
    /\ mainPc = "wait"
    /\ interrupted' = TRUE
    /\ mainPc' = "finally"
    /\ UNCHANGED <<calc, free_queue, full_queue, pending, m, sent, final_checkpoint,
                   actorVars, threadVars>>

\* else: for thread in threads: thread.join()
MainJoinThreads ==
    /\ mainPc = "join"
    /\ \A t \in Threads : threadPc[t] = "done"
    /\ mainPc' = "finally"
    /\ UNCHANGED <<calc, free_queue, full_queue, pending, m, sent, interrupted,
                   final_checkpoint, actorVars, threadVars>>

\* the sentinel goes to the wrong queue
MainPushSentinelFull ==
    /\ mainPc = "finally"
    /\ sent < NumActors
    /\ full_queue' = Append(full_queue, None)
    /\ sent' = sent + 1
    /\ mainPc' = IF sent + 1 = NumActors THEN "join_actors" ELSE "finally"
    /\ UNCHANGED <<calc, free_queue, pending, m, interrupted, final_checkpoint,
                   actorVars, threadVars>>

\* finally: for _ in range(flags.num_actors): free_queue.put(None)
MainPushSentinel ==
    /\ mainPc = "finally"
    /\ sent < NumActors
    /\ free_queue' = Append(free_queue, None)
    /\ sent' = sent + 1
    /\ mainPc' = IF sent + 1 = NumActors THEN "join_actors" ELSE "finally"
    /\ UNCHANGED <<calc, full_queue, pending, m, interrupted, final_checkpoint,
                   actorVars, threadVars>>

\* for actor in actor_processes: actor.join(timeout=1); after an interrupt
\* the pending return of the except clause leaves train here
MainJoinActors ==
    /\ mainPc = "join_actors"
    /\ mainPc' = IF interrupted THEN "returned" ELSE "checkpoint"
    /\ UNCHANGED <<calc, free_queue, full_queue, pending, m, sent, interrupted,
                   final_checkpoint, actorVars, threadVars>>

\* flags.disable_checkpoint is off (checkpoints are written)
disable_checkpoint == FALSE

\* checkpoint(frames); plogger.close()
MainFinalCheckpoint ==
    /\ mainPc = "checkpoint"
    /\ final_checkpoint' = (~disable_checkpoint)
    /\ mainPc' = "closed"
    /\ UNCHANGED <<calc, free_queue, full_queue, pending, m, sent, interrupted,
                   actorVars, threadVars>>

----------------------------------------------------------------------------
Next ==
    \/ \E a \in Actors : ActorAcquire(a)
    \/ \E a \in Actors : ActorRollout(a)
    \/ \E a \in Actors : ActorFail(a)
    \/ \E t \in Threads : ThreadTest(t)
    \/ \E t \in Threads : GetBatchAcquire(t)
    \/ \E t \in Threads : GetBatchRelease(t)
    \/ \E t \in Threads : LearnEnter(t)
    \/ \E t \in Threads : LearnForward(t)
    \/ \E t \in Threads : LearnOptimize(t)
    \/ \E t \in Threads : LearnPublish(t)
    \/ \E t \in Threads : LogAndCount(t)
    \/ MainFill
    \/ MainStartThread
    \/ MainLoopTurn
    \/ MainLoopExit
    \/ KeyboardInterrupt
    \/ MainJoinThreads
    \/ MainPushSentinel
    \/ MainJoinActors
    \/ MainFinalCheckpoint

Spec == Init /\ [][Next]_vars

\* processes and threads are scheduled fairly; an environment failure, an
\* interrupt and an elapsed save interval are not bound to happen
FairSpec ==
    /\ Spec
    /\ \A a \in Actors : WF_vars(ActorStep(a))
    /\ \A t \in Threads : WF_vars(ThreadStep(t))
    /\ WF_vars(MainFill \/ MainStartThread \/ MainLoopExit \/ MainJoinThreads
                 \/ MainPushSentinel \/ MainJoinActors \/ MainFinalCheckpoint)

----------------------------------------------------------------------------
\* ownership of the slot indices

\* how often index s is held in the batches of the learner threads
HeldByThreads(s) ==
    Cardinality({p \in Threads \X (1 .. BatchSize) :
                    /\ p[2] <= Len(indices[p[1]])
                    /\ indices[p[1]][p[2]] = s})

HeldByActors(s) == Cardinality({a \in Actors : actorIndex[a] = s})

Owners(s) ==
    Count(free_queue, s) + Count(full_queue, s) + HeldByActors(s) + HeldByThreads(s)

\* slots held by actors and learner threads
InFlight ==
    Cardinality({a \in Actors : actorIndex[a] # None})
      + Cardinality({p \in Threads \X (1 .. BatchSize) : p[2] <= Len(indices[p[1]])})

ThreadsIn(pcs) == {t \in Threads : threadPc[t] \in pcs}

AllStopped == \A a \in Actors : actorPc[a] = "stopped"
AllTerminated == \A a \in Actors : actorPc[a] \in {"stopped", "failed"}
AllThreadsDone == \A t \in Threads : threadPc[t] = "done"
SentinelsPushed == mainPc \in {"join_actors", "returned", "checkpoint", "closed"}

----------------------------------------------------------------------------
\* C1: every slot index the initial fill has put into the pool has exactly
\* one owner among the free queue, the full queue, one actor and one learner
\* thread (an index the fill has not put yet has none): no index occurs
\* twice in the queues or is held by two workers or by a worker and a queue.
C1_Ownership ==
    \A s \in Slots : Owners(s) = IF s < m THEN 1 ELSE 0

\* a slot that went from the free queue through an actor and the full
\* queue is held by a learner thread, and it is not its first round
C1_Witness ==
    /\ mainPc # "fill"
    /\ frames > 0
    /\ \E t \in Threads : indices[t] # <<>>

\* C2 as stated: once the pool is filled, free.size() + full.size() +
\* inFlight == N after every operation, the shutdown pushes included.
C2_SizeConservation ==
    mainPc # "fill" => Len(free_queue) + Len(full_queue) + InFlight = NumBuffers

\* C2 amended: the slot indices in the free queue (sentinels not counted),
\* the entries of the full queue and the slots in flight add up to the
\* number of indices the initial fill has put, which is N once it is done.
C2_SlotConservation ==
    /\ SlotEntries(free_queue) + Len(full_queue) + InFlight = m
    /\ mainPc # "fill" => m = NumBuffers

\* the sentinels are all pushed and lie in the free queue next to a slot
\* index: the queue holds more entries than the pool has slots
C2_Witness ==
    /\ sent = NumActors
    /\ Count(free_queue, None) > 0
    /\ SlotEntries(free_queue) > 0
    /\ Len(free_queue) > NumBuffers

\* C3: per slot, actor writes and learner reads alternate strictly, starting
\* with a write: the writes are never more than one ahead of the reads and
\* the reads never ahead of the writes.
C3_Alternation ==
    \A s \in Slots : pending[s] \in {0, 1}

\* a slot was written, read by a learning step that has completed, and
\* written again
C3_Witness ==
    /\ frames > 0
    /\ \E s \in Slots : pending[s] = 1 /\ Count(full_queue, s) = 1

\* C4: at most one learner thread is in the optimizer steps or the
\* publication to the actor model.
C4_MutualExclusion ==
    Cardinality(ThreadsIn({"optimize", "publish"})) <= 1

\* one thread applies its update while another waits to enter learn
C4_Witness ==
    /\ \E t \in Threads : threadPc[t] = "optimize"
    /\ \E t \in Threads : threadPc[t] = "learn"

\* C5 as stated: only gradient application and publication are serialized,
\* so a thread that arrives at learn while another thread runs the forward
\* pass can go ahead and run its own forward pass at the same time.
C5_ForwardConcurrent ==
    \A t \in Threads : \A u \in Threads :
        (threadPc[t] = "forward" /\ threadPc[u] = "learn") => ENABLED LearnEnter(u)

\* C5 amended: the forward pass is inside the lock of learn as well, so no
\* two threads are in the body of learn together (two forward passes never
\* overlap); only batch assembly overlaps with another thread's learn.
C5_LearnSerialized ==
    /\ Cardinality(ThreadsIn({"forward", "optimize", "publish"})) <= 1
    /\ ThreadsIn({"forward", "optimize", "publish"}) # {} => lock

\* one thread runs the forward pass while another, its batch assembled
\* meanwhile, waits at the lock of learn
C5_Witness ==
    /\ \E t \in Threads : threadPc[t] = "forward"
    /\ \E t \in Threads : threadPc[t] = "learn"
    /\ frames = 0

\* an actor or learner step
WorkerNext ==
    \/ \E a \in Actors : ActorStep(a)
    \/ \E t \in Threads : ThreadStep(t)

\* C6: once the finally clause has pushed one sentinel per actor, every
\* actor process ends: it reaches STOPPED, unless an environment failure
\* has ended it before.
C6_ShutdownLiveness ==
    SentinelsPushed ~> AllTerminated

\* every actor has stopped on its sentinel after an interrupt, while
\* learner threads are still in their loops
C6_Witness ==
    /\ SentinelsPushed
    /\ AllStopped
    /\ interrupted
    /\ \E t \in Threads : threadPc[t] # "done"

\* C7: an actor stops only by taking a sentinel from the free queue while
\* it is between segments; a stopped actor owns no slot; every stopped
\* actor took exactly one of the sentinels pushed; and once all actors have
\* stopped every slot index is in a queue or held by a learner thread.
C7_StopOnSentinel ==
    /\ [](/\ \A a \in Actors : actorPc[a] = "stopped" => actorIndex[a] = None
          /\ Cardinality({a \in Actors : actorPc[a] = "stopped"})
               + Count(free_queue, None) = sent
          /\ AllStopped =>
               \A s \in Slots :
                   Count(free_queue, s) + Count(full_queue, s) + HeldByThreads(s) = 1)
    /\ [][\A a \in Actors :
            (actorPc[a] # "stopped" /\ actorPc'[a] = "stopped") =>
                /\ actorPc[a] = "acquire"
                /\ free_queue # <<>>
                /\ Head(free_queue) = None
                /\ free_queue' = Tail(free_queue)]_vars

\* all actors have stopped after a normal end and the last segment one of
\* them published waits in the full queue
C7_Witness ==
    /\ AllStopped
    /\ sent = NumActors
    /\ ~interrupted
    /\ full_queue # <<>>

\* C8: after a KeyboardInterrupt in the wait loop train ends with the final
\* checkpoint written (unless disabled) and one sentinel per actor pushed,
\* and the run does not come to rest before every learner thread and every
\* actor has ended.
C8_OrderlyShutdown ==
    /\ (interrupted /\ mainPc = "returned") =>
           /\ final_checkpoint \/ disable_checkpoint
           /\ sent = NumActors
    /\ (interrupted /\ ~ENABLED Next) => (AllThreadsDone /\ AllTerminated)

\* C9: once frames has reached total_frames the run does not come to rest
\* before every learner thread has left its loop, and on the normal path no
\* sentinel is pushed before all learner threads have ended.
C9_LearnersExit ==
    /\ (frames >= TotalFrames /\ ~ENABLED Next) => AllThreadsDone
    /\ (~interrupted /\ sent > 0) => AllThreadsDone

\* C10: while train waits for the frame target and at least one actor is
\* alive, the workers are not all blocked: some actor or learner thread can
\* take a step.
C10_ReducedParallelism ==
    (/\ mainPc = "wait"
     /\ frames < TotalFrames
     /\ \E a \in Actors : actorPc[a] \in {"acquire", "rollout"})
        => ENABLED WorkerNext

----------------------------------------------------------------------------
\* C11: get_batch has given all B indices of the batch back to the free
\* queue before learn is called: a learner thread that waits for the learn
\* lock, computes inside learn or logs holds no slot index.
C11_ReleasedBeforeLearn ==
    \A t \in Threads :
        threadPc[t] \in {"learn", "forward", "optimize", "publish", "log"}
            => indices[t] = <<>>

\* a learner is still in the forward pass of learn while an actor already
\* writes the next segment into a slot of that learner's batch
C11_Witness ==
    \E t \in Threads, a \in Actors :
        /\ threadPc[t] \in {"learn", "forward"}
        /\ actorPc[a] = "rollout"
        /\ frames = 0
        /\ \A u \in Threads \ {t} : threadPc[u] = "get_batch"

----------------------------------------------------------------------------
\* Carried recurrent state (spec 3 RecurrentStateCarry, 4.2): the table
\* initial_agent_state_buffers of init_models_and_states.py:89-95 and the
\* segments the actors write, followed slot by slot. The queues and the
\* learner, which only reads the table, are left out: a slot nobody writes
\* can be taken by any actor that holds none.

\* values a recurrent state takes; actor_model.initial_state() is 0
initial_state == 0
StateValues == {0, 1, 2}

\* no segment has been written into the slot yet
NoSegment == [actor |-> None, final |-> initial_state, term |-> FALSE]

\* for _ in range(flags.num_buffers): state = actor_model.initial_state(...)
CarryInit ==
    /\ PoolInit
    /\ calc = [op |-> "carry",
               initial_agent_state_buffers |-> [s \in Slots |-> initial_state],
               holder |-> [s \in Slots |-> None],
               fed |-> [s \in Slots |-> initial_state],
               agent_state |-> [s \in Slots |-> initial_state],
               out |-> [s \in Slots |-> initial_state],
               term |-> [s \in Slots |-> FALSE],
               step |-> [s \in Slots |-> 0],
               last |-> [s \in Slots |-> NoSegment]]

\* acquire a free slot; replay the carried recurrent state for that index
CarryAcquire(a, s) ==
    /\ \A x \in Slots : calc.holder[x] # a
    /\ calc.holder[s] = None
    /\ calc' = [calc EXCEPT
                  !.holder[s] = a,
                  !.fed[s] = calc.initial_agent_state_buffers[s],
                  !.agent_state[s] = calc.initial_agent_state_buffers[s],
                  !.step[s] = 0]
    /\ UNCHANGED poolVars

\* variant: on episode termination the state the policy returned is kept
CarryStepEnvNoReset(a, s) ==
    /\ calc.holder[s] = a
    /\ calc.step[s] < UnrollLength
    /\ \E v \in StateValues, real_done \in BOOLEAN :
         calc' = [calc EXCEPT
                    !.agent_state[s] = v,
                    !.out[s] = v,
                    !.term[s] = real_done,
                    !.step[s] = @ + 1]
    /\ UNCHANGED poolVars

\* one timestep: the policy returns the updated recurrent state v; on
\* episode termination the carried state is reset to the initial value
CarryStepEnv(a, s) ==
    /\ calc.holder[s] = a
    /\ calc.step[s] < UnrollLength
    /\ \E v \in StateValues, real_done \in BOOLEAN :
         calc' = [calc EXCEPT
                    !.agent_state[s] = IF real_done THEN initial_state ELSE v,
                    !.out[s] = v,
                    !.term[s] = real_done,
                    !.step[s] = @ + 1]
    /\ UNCHANGED poolVars

\* after T steps: snapshot the resulting state into the table, publish
CarryPublish(a, s) ==
    /\ calc.holder[s] = a
    /\ calc.step[s] = UnrollLength
    /\ calc' = [calc EXCEPT
                  !.initial_agent_state_buffers[s] = calc.agent_state[s],
                  !.last[s] = [actor |-> a, final |-> calc.out[s],
                               term |-> calc.term[s]],
                  !.holder[s] = None]
    /\ UNCHANGED poolVars

CarryNext ==
    \/ \E a \in Actors, s \in Slots : CarryAcquire(a, s)
    \/ \E a \in Actors, s \in Slots : CarryStepEnv(a, s)
    \/ \E a \in Actors, s \in Slots : CarryPublish(a, s)

CarrySpec == CarryInit /\ [][CarryNext]_vars

\* C12: when the actor that wrote the previous segment of a slot writes the
\* next segment of that slot, the state it starts from is the state the
\* policy returned at the end of the previous segment, or the initial state
\* when the previous segment ended in true termination.
C12_Continuity ==
    \A s \in Slots :
        (calc.holder[s] # None /\ calc.last[s].actor = calc.holder[s])
            => calc.fed[s] = IF calc.last[s].term THEN initial_state
                             ELSE calc.last[s].final

\* an actor has written a second segment into the slot, started from the
\* initial state although its terminated first segment ended in another one
C12_Witness ==
    \E s \in Slots :
        /\ calc.holder[s] # None
        /\ calc.last[s].actor = calc.holder[s]
        /\ calc.last[s].term
        /\ calc.last[s].final # initial_state
        /\ calc.fed[s] = initial_state
        /\ calc.step[s] = UnrollLength

----------------------------------------------------------------------------
\* learn, the reward fed to the correction (e3b.py:51, 59-60, 84-91).
\* Rewards are counted in thousandths, bonus rewards in hundredths and the
\* coefficient in tenths, so that coefficient * bonus is in thousandths.

\* number of timesteps T of the batches the learn operators are applied to
SeqLen == 2

\* 1.0 in thousandths: torch.clamp(total_rewards, -1, 1)
One == 1000

ExtValues == {-2000, 0, 1000}
BonusValues == {0, 20, 30}
CoefValues == {-5, 0, 5, 20}

\* tensor[1:]
Slice1(x) == [t \in 1 .. (Len(x) - 1) |-> x[t + 1]]

\* tensor[:-1]
SliceLast(x) == [t \in 1 .. (Len(x) - 1) |-> x[t]]

\* x *= c, elementwise
Scale(x, c) == [t \in DOMAIN x |-> x[t] * c]

\* torch.clamp(x, lo, hi), elementwise
Clamp(x, lo, hi) ==
    [t \in DOMAIN x |-> IF x[t] < lo THEN lo ELSE IF x[t] > hi THEN hi ELSE x[t]]

\* variant: the bonus is added whatever the flags say
TotalRewardsAlways(rewards, intrinsic_rewards, no_reward, coef) ==
    [t \in DOMAIN rewards |-> rewards[t] + intrinsic_rewards[t]]

\* if flags.no_reward: ... elif flags.intrinsic_reward_coef > 0.: ... else: ...
TotalRewards(rewards, intrinsic_rewards, no_reward, coef) ==
    IF no_reward THEN intrinsic_rewards
    ELSE IF coef > 0
         THEN [t \in DOMAIN rewards |-> rewards[t] + intrinsic_rewards[t]]
         ELSE rewards

\* T + 1 timesteps of the batch: extrinsic reward and bonus reward
RewardBatches ==
    [reward : [1 .. (SeqLen + 1) -> ExtValues],
     bonus_reward : [1 .. (SeqLen + 1) -> BonusValues]]

\* the scenario of spec 8: extrinsic [0,0,1], intrinsic [0.2,0.3,0.1],
\* behind the timestep that learn slices off
\* and coefficient 0.5
Scenario ==
    [batch |-> [reward |-> <<1000, 0, 0, 1000>>,
                bonus_reward |-> <<30, 20, 30, 10>>],
     intrinsic_reward_coef |-> 5]

RewardInit ==
    /\ PoolInit
    /\ \E b \in RewardBatches \cup {Scenario.batch}, c \in CoefValues,
          nr \in BOOLEAN :
         calc = [op |-> "reward", pc |-> "start", batch |-> b,
                 intrinsic_reward_coef |-> c, no_reward |-> nr,
                 intrinsic_rewards |-> <<>>, total_rewards |-> <<>>,
                 clipped_rewards |-> <<>>]

\* intrinsic_rewards = batch['bonus_reward'][1:]; intrinsic_rewards *= coef
RewardScale ==
    /\ calc.op = "reward" /\ calc.pc = "start"
    /\ calc' = [calc EXCEPT
                  !.pc = "scaled",
                  !.intrinsic_rewards =
                      Scale(Slice1(calc.batch.bonus_reward),
                            calc.intrinsic_reward_coef)]
    /\ UNCHANGED poolVars

\* batch = {key: tensor[1:]}; rewards = batch['reward']; total_rewards;
\* clipped_rewards = torch.clamp(total_rewards, -1, 1)
RewardCompose ==
    /\ calc.op = "reward" /\ calc.pc = "scaled"
    /\ LET rewards == Slice1(calc.batch.reward)
           total == TotalRewards(rewards, calc.intrinsic_rewards,
                                 calc.no_reward, calc.intrinsic_reward_coef)
       IN calc' = [calc EXCEPT
                     !.pc = "done",
                     !.total_rewards = total,
                     !.clipped_rewards = Clamp(total, -One, One)]
    /\ UNCHANGED poolVars

RewardNext == RewardScale \/ RewardCompose

RewardSpec == RewardInit /\ [][RewardNext]_vars

\* clamp to [-1, 1] of one reward in thousandths
ClampOne(x) == IF x < -One THEN -One ELSE IF x > One THEN One ELSE x

\* C13 as stated: the reward is clamp(extrinsic + coef * intrinsic, -1, 1),
\* where no_reward drops the extrinsic term and a coefficient <= 0 drops the
\* intrinsic term; on the scenario the rewards are [0.1, 0.15, 1.05] before
\* and [0.1, 0.15, 1.0] after the clamp.
C13_RewardAsStated ==
    calc.pc = "done" =>
        /\ \A t \in 1 .. (Len(calc.batch.reward) - 1) :
             calc.clipped_rewards[t] =
                 ClampOne((IF calc.no_reward THEN 0
                           ELSE calc.batch.reward[t + 1])
                          + (IF calc.intrinsic_reward_coef <= 0 THEN 0
                             ELSE calc.intrinsic_reward_coef
                                  * calc.batch.bonus_reward[t + 1]))
        /\ (calc.batch = Scenario.batch
            /\ calc.intrinsic_reward_coef = Scenario.intrinsic_reward_coef /\ ~calc.no_reward)
               => /\ calc.total_rewards = <<100, 150, 1050>>
                  /\ calc.clipped_rewards = <<100, 150, 1000>>

\* C13 amended: without no_reward the reward is clamp(extrinsic + coef *
\* intrinsic, -1, 1) for a coefficient > 0 and clamp(extrinsic, -1, 1) for a
\* coefficient <= 0; with no_reward it is clamp(coef * intrinsic, -1, 1)
\* whatever the sign of the coefficient; the scenario values are as stated.
C13_Reward ==
    calc.pc = "done" =>
        /\ \A t \in 1 .. (Len(calc.batch.reward) - 1) :
             LET e == calc.batch.reward[t + 1]
                 i == calc.intrinsic_reward_coef * calc.batch.bonus_reward[t + 1]
             IN /\ (~calc.no_reward /\ calc.intrinsic_reward_coef > 0)
                      => calc.clipped_rewards[t] = ClampOne(e + i)
                /\ (~calc.no_reward /\ calc.intrinsic_reward_coef <= 0)
                      => calc.clipped_rewards[t] = ClampOne(e)
                /\ calc.no_reward => calc.clipped_rewards[t] = ClampOne(i)
        /\ (calc.batch = Scenario.batch
            /\ calc.intrinsic_reward_coef = Scenario.intrinsic_reward_coef /\ ~calc.no_reward)
               => /\ calc.total_rewards = <<100, 150, 1050>>
                  /\ calc.clipped_rewards = <<100, 150, 1000>>

\* the scenario has been computed, its last reward clamped from 1.05 to 1.0
C13_Witness ==
    /\ calc.pc = "done"
    /\ calc.batch = Scenario.batch
    /\ calc.intrinsic_reward_coef = Scenario.intrinsic_reward_coef
    /\ ~calc.no_reward
    /\ calc.total_rewards[3] = 1050
    /\ calc.clipped_rewards[3] = One

----------------------------------------------------------------------------
\* learn of the combined variant, the reward fed to the correction
\* (RNDxE3B.py:53-61, 73-74, 94-106). The distillation error is counted in
\* units, the episodic bonus in hundredths.

RndValues == {0, 1, 3}

\* elementwise product and sum of the distillation error and the episodic
\* bonus, in hundredths
BonusProduct(rnd, episodic) == [t \in DOMAIN rnd |-> rnd[t] * episodic[t]]
BonusSum(rnd, episodic) == [t \in DOMAIN rnd |-> 100 * rnd[t] + episodic[t]]

RndRewardInit ==
    /\ PoolInit
    /\ \E b \in RewardBatches, c \in CoefValues, nr \in BOOLEAN,
          e \in [1 .. SeqLen -> RndValues] :
         calc = [op |-> "rnd_reward", pc |-> "start", batch |-> b,
                 intrinsic_reward_coef |-> c, no_reward |-> nr,
                 rnd_error |-> e, episodic_bonus |-> <<>>,
                 intrinsic_rewards |-> <<>>, intrinsic_rewards_rnd |-> <<>>,
                 total_rewards |-> <<>>, clipped_rewards |-> <<>>]

\* episodic_bonus = batch['bonus_reward'][1:]; intrinsic_rewards =
\* episodic_bonus; intrinsic_rewards_rnd = torch.norm(...);
\* intrinsic_rewards_rnd *= intrinsic_rewards
RndRewardCombine ==
    /\ calc.op = "rnd_reward" /\ calc.pc = "start"
    /\ LET episodic == Slice1(calc.batch.bonus_reward) IN
         calc' = [calc EXCEPT
                    !.pc = "combined",
                    !.episodic_bonus = episodic,
                    !.intrinsic_rewards = episodic,
                    !.intrinsic_rewards_rnd =
                        BonusProduct(calc.rnd_error, episodic)]
    /\ UNCHANGED poolVars

\* intrinsic_rewards *= intrinsic_reward_coef, in place: episodic_bonus is
\* the same tensor
RndRewardScale ==
    /\ calc.op = "rnd_reward" /\ calc.pc = "combined"
    /\ LET scaled == Scale(calc.intrinsic_rewards, calc.intrinsic_reward_coef)
       IN calc' = [calc EXCEPT
                     !.pc = "scaled",
                     !.intrinsic_rewards = scaled,
                     !.episodic_bonus = scaled]
    /\ UNCHANGED poolVars

\* rewards = batch['reward']; total_rewards; clipped_rewards
RndRewardCompose ==
    /\ calc.op = "rnd_reward" /\ calc.pc = "scaled"
    /\ LET rewards == Slice1(calc.batch.reward)
           total == TotalRewards(rewards, calc.intrinsic_rewards,
                                 calc.no_reward, calc.intrinsic_reward_coef)
       IN calc' = [calc EXCEPT
                     !.pc = "done",
                     !.total_rewards = total,
                     !.clipped_rewards = Clamp(total, -One, One)]
    /\ UNCHANGED poolVars

RndRewardNext == RndRewardCombine \/ RndRewardScale \/ RndRewardCompose

RndRewardSpec == RndRewardInit /\ [][RndRewardNext]_vars

\* C14: in the combined variant the intrinsic reward that enters the total
\* reward is the product or the sum of the distillation error and the
\* episodic bonus, so that the reward handed to vtrace depends on both.
C14_BothBonuses ==
    calc.pc = "done" =>
        LET rewards == Slice1(calc.batch.reward)
            episodic == Slice1(calc.batch.bonus_reward)
            c == calc.intrinsic_reward_coef
        IN \/ calc.total_rewards =
                TotalRewards(rewards,
                             Scale(BonusProduct(calc.rnd_error, episodic), c),
                             calc.no_reward, c)
           \/ calc.total_rewards =
                TotalRewards(rewards,
                             Scale(BonusSum(calc.rnd_error, episodic), c),
                             calc.no_reward, c)

----------------------------------------------------------------------------
\* learn, the per-step discount (e3b.py:93). Discounts are counted in
\* halves.

\* 1.0 in halves
DiscountOne == 2

\* flags.discounting
DiscountingValues == {0, 1, DiscountOne}

\* the done flags of one timestep: real_done marks a true termination, done
\* also an artificial truncation
DoneFlags ==
    {[done |-> FALSE, real_done |-> FALSE],
     [done |-> TRUE, real_done |-> FALSE],
     [done |-> TRUE, real_done |-> TRUE]}

\* tensor.float() of a boolean tensor, elementwise
ToFloat(x) == [t \in DOMAIN x |-> IF x[t] THEN 1 ELSE 0]

\* (1 - x).abs(), elementwise
OneMinusAbs(x) ==
    [t \in DOMAIN x |-> IF 1 - x[t] < 0 THEN x[t] - 1 ELSE 1 - x[t]]

\* variant: the discount is cut wherever done is set
DiscountsOnDone(dones, discounting) ==
    Scale(OneMinusAbs(ToFloat([t \in DOMAIN dones |-> dones[t].done])),
          discounting)

\* discounts = (1 - batch['real_done'].float()).abs() * flags.discounting
Discounts(dones, discounting) ==
    Scale(OneMinusAbs(ToFloat([t \in DOMAIN dones |-> dones[t].real_done])),
          discounting)

DiscountInit ==
    /\ PoolInit
    /\ \E f \in [1 .. (SeqLen + 1) -> DoneFlags], g \in DiscountingValues :
         calc = [op |-> "discount", pc |-> "start", dones |-> f,
                 discounting |-> g, discounts |-> <<>>]

\* batch = {key: tensor[1:]}; discounts = ...
DiscountCompute ==
    /\ calc.op = "discount" /\ calc.pc = "start"
    /\ calc' = [calc EXCEPT
                  !.pc = "done",
                  !.discounts = Discounts(Slice1(calc.dones),
                                          calc.discounting)]
    /\ UNCHANGED poolVars

DiscountNext == DiscountCompute

DiscountSpec == DiscountInit /\ [][DiscountNext]_vars

\* C15: the discount of a timestep is 0 where real_done is true and
\* flags.discounting everywhere else, also where done is true and real_done
\* is false; for a discounting other than 0 it is therefore 0 exactly at the
\* real_done timesteps.
C15_Discount ==
    calc.pc = "done" =>
        \A t \in 1 .. SeqLen :
            /\ calc.dones[t + 1].real_done => calc.discounts[t] = 0
            /\ ~calc.dones[t + 1].real_done
                  => calc.discounts[t] = calc.discounting
            /\ calc.discounting # 0
                  => (calc.discounts[t] = 0 <=> calc.dones[t + 1].real_done)

\* a batch with a truncated timestep that keeps the discount and a truly
\* terminated one that has discount 0
C15_Witness ==
    /\ calc.pc = "done"
    /\ calc.discounting = 1
    /\ \E t \in 1 .. SeqLen :
         /\ calc.dones[t + 1].done /\ ~calc.dones[t + 1].real_done
         /\ calc.discounts[t] = calc.discounting
    /\ \E t \in 1 .. SeqLen :
         /\ calc.dones[t + 1].real_done
         /\ calc.discounts[t] = 0

----------------------------------------------------------------------------
\* learn, the call of vtrace.from_logits (e3b.py:76-82, 93-102), and the
\* correction itself (spec 4.4). The policies enter by the probability, in
\* quarters, that each gives to the action taken; ratios are counted in
\* quarters, discounts in halves, rewards and values in thousandths.

\* 1.0 in quarters
RatioOne == 4

\* design default of both clipping constants: 1.0
clip_rho_threshold == RatioOne
clip_c_threshold == RatioOne

BehaviorProbs == {1, 4}
TargetProbs == {0, 1, 4}
ClippedRewardValues == {-One, One}
BaselineValues == {0, 2 * One}

RECURSIVE Pow(_, _)
Pow(b, n) == IF n = 0 THEN 1 ELSE b * Pow(b, n - 1)

Min(x, y) == IF x < y THEN x ELSE y

\* pi_target(a_t | x_t) / pi_behavior(a_t | x_t), in quarters
Ratios(behavior, target) ==
    [t \in DOMAIN behavior |-> (RatioOne * target[t]) \div behavior[t]]

\* min(bar, ratio), elementwise
ClipRatios(ratios, bar) == [t \in DOMAIN ratios |-> Min(bar, ratios[t])]

\* v_t - V(x_t) for the arguments in, as the integer
\* (v_t - V(x_t)) * (DiscountOne * RatioOne) ^ (T - t + 1):
\*   delta_t = rho_t (r_t + gamma_t V(x_{t+1}) - V(x_t))
\*   v_t - V(x_t) = delta_t + gamma_t c_t (v_{t+1} - V(x_{t+1}))
\* with V(x_{T+1}) the bootstrap value and v_{T+1} = V(x_{T+1})
RECURSIVE VsMinusV(_, _)
VsMinusV(in, t) ==
    IF t > Len(in.rewards) THEN 0
    ELSE LET T == Len(in.rewards)
             next_value == IF t = T THEN in.bootstrap_value
                           ELSE in.values[t + 1]
             td == DiscountOne * in.rewards[t]
                   + in.discounts[t] * next_value
                   - DiscountOne * in.values[t]
         IN in.rhos[t] * td * Pow(DiscountOne * RatioOne, T - t)
            + in.discounts[t] * in.cs[t] * VsMinusV(in, t + 1)

\* from_logits: the clipped ratios and the corrected value targets vs, vs[t]
\* as the integer v_t * (DiscountOne * RatioOne) ^ (T - t + 1)
FromLogits(behavior, target, discounts, rewards, values, bootstrap_value, rho_bar, c_bar) ==
    LET ratios == Ratios(behavior, target)
        in == [rhos |-> ClipRatios(ratios, rho_bar),
               cs |-> ClipRatios(ratios, c_bar),
               discounts |-> discounts, rewards |-> rewards,
               values |-> values, bootstrap_value |-> bootstrap_value]
        T == Len(rewards)
    IN [rhos |-> in.rhos, cs |-> in.cs,
        vs |-> [t \in 1 .. T |->
                   values[t] * Pow(DiscountOne * RatioOne, T - t + 1)
                   + VsMinusV(in, t)]]

\* variant: the call switches the clipping off
LearnVtraceUnclipped(b, baseline, discounts, clipped_rewards) ==
    FromLogits(b.behavior, b.target, discounts, clipped_rewards,
               SliceLast(baseline), baseline[Len(baseline)],
               16 * RatioOne, 16 * RatioOne)

\* variant: the first baseline is handed over as bootstrap value
LearnVtraceFirst(b, baseline, discounts, clipped_rewards) ==
    FromLogits(b.behavior, b.target, discounts, clipped_rewards,
               SliceLast(baseline), baseline[1],
               clip_rho_threshold, clip_c_threshold)

\* bootstrap_value = learner_outputs['baseline'][-1]; learner_outputs =
\* {key: tensor[:-1]}; vtrace.from_logits(...) without clipping arguments
LearnVtrace(b, baseline, discounts, clipped_rewards) ==
    FromLogits(b.behavior, b.target, discounts, clipped_rewards,
               SliceLast(baseline), baseline[Len(baseline)],
               clip_rho_threshold, clip_c_threshold)

\* one timestep of the sliced batch and of the sliced learner outputs
VtraceSteps ==
    [behavior : BehaviorProbs, target : TargetProbs, real_done : BOOLEAN,
     reward : ClippedRewardValues]

VtraceInit ==
    /\ PoolInit
    /\ \E s \in [1 .. SeqLen -> VtraceSteps],
          v \in [1 .. (SeqLen + 1) -> BaselineValues],
          g \in DiscountingValues \ {0} :
         calc = [op |-> "vtrace", pc |-> "start", steps |-> s,
                 baseline |-> v, discounting |-> g, discounts |-> <<>>,
                 vtrace_returns |-> [rhos |-> <<>>, cs |-> <<>>, vs |-> <<>>]]

\* discounts = (1 - batch['real_done'].float()).abs() * flags.discounting
VtraceDiscounts ==
    /\ calc.op = "vtrace" /\ calc.pc = "start"
    /\ calc' = [calc EXCEPT
                  !.pc = "discounted",
                  !.discounts = Discounts(calc.steps, calc.discounting)]
    /\ UNCHANGED poolVars

\* vtrace_returns = vtrace.from_logits(...)
VtraceCall ==
    /\ calc.op = "vtrace" /\ calc.pc = "discounted"
    /\ calc' = [calc EXCEPT
                  !.pc = "done",
                  !.vtrace_returns =
                      LearnVtrace([behavior |-> [t \in 1 .. SeqLen |->
                                                    calc.steps[t].behavior],
                                   target |-> [t \in 1 .. SeqLen |->
                                                  calc.steps[t].target]],
                                  calc.baseline, calc.discounts,
                                  [t \in 1 .. SeqLen |->
                                      calc.steps[t].reward])]
    /\ UNCHANGED poolVars

VtraceNext == VtraceDiscounts \/ VtraceCall

VtraceSpec == VtraceInit /\ [][VtraceNext]_vars

\* r_t + gamma_t r_{t+1} + ... + (product of the discounts) * bootstrap, as
\* the integer return * DiscountOne ^ (T - t + 1)
RECURSIVE NStepReturn(_, _, _, _)
NStepReturn(rewards, discounts, bootstrap_value, t) ==
    IF t > Len(rewards) THEN bootstrap_value
    ELSE rewards[t] * Pow(DiscountOne, Len(rewards) - t + 1)
         + discounts[t]
           * NStepReturn(rewards, discounts, bootstrap_value, t + 1)

\* the behavior policy equals the target policy at every timestep
OnPolicy == \A t \in 1 .. SeqLen : calc.steps[t].behavior = calc.steps[t].target

\* C16: when the behavior policy equals the target policy at every timestep,
\* every rho_t and c_t is 1 and every corrected value target v_t equals the
\* n-step bootstrapped return from t.
C16_Degeneracy ==
    (calc.pc = "done" /\ OnPolicy) =>
        \A t \in 1 .. SeqLen :
            /\ calc.vtrace_returns.rhos[t] = RatioOne
            /\ calc.vtrace_returns.cs[t] = RatioOne
            /\ calc.vtrace_returns.vs[t] =
                   NStepReturn([u \in 1 .. SeqLen |-> calc.steps[u].reward],
                               calc.discounts, calc.baseline[SeqLen + 1], t)
                   * Pow(RatioOne, SeqLen - t + 1)

\* an on-policy batch without termination, discount 0.5, whose first value
\* target differs from the baseline it corrects
C16_Witness ==
    /\ calc.pc = "done"
    /\ OnPolicy
    /\ calc.discounting = 1
    /\ \A t \in 1 .. SeqLen :
         ~calc.steps[t].real_done /\ calc.steps[t].behavior = 1
    /\ calc.baseline[SeqLen + 1] # 0
    /\ calc.vtrace_returns.vs[1] #
           calc.baseline[1] * Pow(DiscountOne * RatioOne, SeqLen)

\* C17: with both clipping constants at their default 1, every rho_t and c_t
\* used in the recursion is at most 1, whatever the raw probability ratio.
C17_ClippedRatios ==
    calc.pc = "done" =>
        \A t \in 1 .. SeqLen :
            /\ calc.vtrace_returns.rhos[t] <= RatioOne
            /\ calc.vtrace_returns.cs[t] <= RatioOne

\* a batch with a raw ratio of 4 clipped to 1 and a raw ratio of 0 left at 0
C17_Witness ==
    /\ calc.pc = "done"
    /\ \E t \in 1 .. SeqLen :
         /\ calc.steps[t].target = 4 /\ calc.steps[t].behavior = 1
         /\ calc.vtrace_returns.rhos[t] = RatioOne
    /\ \E t \in 1 .. SeqLen :
         /\ calc.steps[t].target = 0
         /\ calc.vtrace_returns.cs[t] = 0

----------------------------------------------------------------------------
\* learn from the correction to the publication (e3b.py:95-147), followed
\* for the finiteness of its values only: TRUE stands for a finite number,
\* FALSE for inf or nan. Arithmetic on a non-finite operand gives a
\* non-finite result.

AllFinite(x) == \A t \in DOMAIN x : x[t]

LearnStepInit ==
    /\ PoolInit
    /\ \E r \in [1 .. SeqLen -> BOOLEAN], v \in [1 .. (SeqLen + 1) -> BOOLEAN] :
         calc = [op |-> "learn_step", pc |-> "start",
                 log_rhos |-> r, baseline |-> v,
                 rhos |-> <<>>, vs |-> <<>>, total_loss |-> TRUE,
                 learner_model |-> TRUE, actor_model |-> TRUE,
                 optimizer_steps |-> 0, published |-> 0]

\* vtrace_returns = vtrace.from_logits(...): rho_t from the ratio at t, v_t
\* from the ratios and values from t on
LearnStepVtrace ==
    /\ calc.op = "learn_step" /\ calc.pc = "start"
    /\ calc' = [calc EXCEPT
                  !.pc = "corrected",
                  !.rhos = calc.log_rhos,
                  !.vs = [t \in 1 .. SeqLen |->
                             /\ \A u \in t .. SeqLen : calc.log_rhos[u]
                             /\ \A u \in t .. (SeqLen + 1) : calc.baseline[u]]]
    /\ UNCHANGED poolVars

\* pg_loss, baseline_loss, entropy_loss, total_loss, stats
LearnStepLoss ==
    /\ calc.op = "learn_step" /\ calc.pc = "corrected"
    /\ calc' = [calc EXCEPT
                  !.pc = "loss",
                  !.total_loss = /\ AllFinite(calc.rhos)
                                 /\ AllFinite(calc.vs)
                                 /\ AllFinite(calc.baseline)]
    /\ UNCHANGED poolVars

\* scheduler.step(); zero_grad(); total_loss.backward(); clip_grad_norm_;
\* optimizer.step(): no test on the loss or the gradients
LearnStepOptimizer ==
    /\ calc.op = "learn_step" /\ calc.pc = "loss"
    /\ calc' = [calc EXCEPT
                  !.pc = "stepped",
                  !.learner_model = calc.learner_model /\ calc.total_loss,
                  !.optimizer_steps = @ + 1]
    /\ UNCHANGED poolVars

\* actor_model.load_state_dict(learner_model.state_dict()); return stats
LearnStepPublish ==
    /\ calc.op = "learn_step" /\ calc.pc = "stepped"
    /\ calc' = [calc EXCEPT
                  !.pc = "returned",
                  !.actor_model = calc.learner_model,
                  !.published = @ + 1]
    /\ UNCHANGED poolVars

LearnStepNext ==
    \/ LearnStepVtrace
    \/ LearnStepLoss
    \/ LearnStepOptimizer
    \/ LearnStepPublish

LearnStepSpec == LearnStepInit /\ [][LearnStepNext]_vars

\* C18: when the importance ratios or the corrected values of a learning
\* step are non-finite, neither the optimizer step nor the publication to
\* the actor model is executed, and the parameters stay finite.
C18_HaltOnNonFinite ==
    (calc.pc \in {"corrected", "loss", "stepped", "returned"}
     /\ ~(AllFinite(calc.rhos) /\ AllFinite(calc.vs)))
        => /\ calc.optimizer_steps = 0
           /\ calc.published = 0
           /\ calc.learner_model
           /\ calc.actor_model

----------------------------------------------------------------------------
\* Startup: train calls init_models_and_states, then creates the actors and
\* the learner threads (e3b.py:150-227, init_models_and_states.py:38-197).

\* flags.model; main.py routes only e3b and RNDxE3B to the train functions
\* followed here, train itself takes any flags
ModelNames == {"vanilla", "e3b", "RNDxE3B"}

\* flags.checkpoint: "None" stands for None, "" for the empty path
CheckpointPaths == {"None", "", "model.tar"}

\* the keys init_models_and_states reads from a checkpoint
OptionalFields ==
    {"actor_model_state_dict", "state_embedding_model_state_dict",
     "inverse_dynamics_model_state_dict", "forward_dynamics_model_state_dict",
     "random_target_network_state_dict", "predictor_network_state_dict",
     "learner_model_optimizer_state_dict",
     "state_embedding_optimizer_state_dict", "predictor_optimizer_state_dict",
     "inverse_dynamics_optimizer_state_dict",
     "forward_dynamics_optimizer_state_dict", "scheduler_state_dict"}
CheckpointFields == OptionalFields \cup {"actor_exploration_model_state_dict"}

\* the flags train is called with and the keys of the checkpoint file, if
\* flags.checkpoint names one
StartupInit ==
    /\ PoolInit
    /\ \E mo \in ModelNames, cp \in CheckpointPaths, cl \in BOOLEAN,
          keys \in SUBSET CheckpointFields :
         /\ cp # "model.tar" => keys = {}
         /\ calc = [op |-> "startup", pc |-> "init",
                    model |-> mo, checkpoint |-> cp, continue_learning |-> cl,
                    keys |-> keys, none_keys |-> {},
                    error |-> "none", restored |-> {},
                    exploration_model |-> "None",
                    learner_model |-> "created", optimizer_params |-> "None",
                    actors_started |-> 0, threads_started |-> 0]

\* variant: the model name is not looked at
InitLoadExplorationAny ==
    /\ calc.op = "startup" /\ calc.pc = "init"
    /\ LET key == IF calc.continue_learning
                  THEN "actor_exploration_model_state_dict"
                  ELSE "actor_model_state_dict"
       IN calc' =
            IF calc.checkpoint \in {"None", ""}
            THEN [calc EXCEPT !.pc = "optimizers"]
            ELSE IF key \notin calc.keys
            THEN [calc EXCEPT !.pc = "raised", !.error = "KeyError"]
            ELSE IF key \in calc.none_keys
            THEN [calc EXCEPT !.pc = "raised", !.error = "TypeError"]
            ELSE [calc EXCEPT !.pc = "optimizers",
                              !.exploration_model = key,
                              !.restored = {key}]
    /\ UNCHANGED poolVars

\* init_models_and_states.py:65-83: the exploration model is loaded from
\* checkpoint["actor_model_state_dict"], or when continuing from
\* checkpoint["actor_exploration_model_state_dict"]; load_state_dict
\* raises when the value stored under the key is None
InitLoadExploration ==
    /\ calc.op = "startup" /\ calc.pc = "init"
    /\ LET key == IF calc.continue_learning
                  THEN "actor_exploration_model_state_dict"
                  ELSE "actor_model_state_dict"
       IN calc' =
            IF calc.checkpoint \in {"None", ""}
            THEN [calc EXCEPT !.pc = "optimizers"]
            ELSE IF calc.model = "vanilla"
            THEN [calc EXCEPT !.pc = "raised",
                              !.error = "NotImplementedError"]
            ELSE IF key \notin calc.keys
            THEN [calc EXCEPT !.pc = "raised", !.error = "KeyError"]
            ELSE IF key \in calc.none_keys
            THEN [calc EXCEPT !.pc = "raised", !.error = "TypeError"]
            ELSE [calc EXCEPT !.pc = "optimizers",
                              !.exploration_model = key,
                              !.restored = {key}]
    /\ UNCHANGED poolVars

\* init_models_and_states.py:85-177: state buffers; the optimizers and the
\* scheduler, learner_model_optimizer on the parameters of the learner
\* model created at line 60; when continuing, each key is loaded if it is
\* in the checkpoint, and with actor_model_state_dict learner_model becomes
\* a deepcopy of actor_model
InitRestore ==
    /\ calc.op = "startup" /\ calc.pc = "optimizers"
    /\ calc' =
         IF calc.checkpoint # "None" /\ calc.continue_learning
         THEN IF calc.checkpoint = ""
              THEN [calc EXCEPT !.pc = "raised",
                                !.optimizer_params = calc.learner_model,
                                !.error = "FileNotFoundError"]
              ELSE [calc EXCEPT !.pc = "returned",
                                !.optimizer_params = calc.learner_model,
                                !.learner_model =
                                    IF "actor_model_state_dict" \in calc.keys
                                    THEN "copied" ELSE @,
                                !.restored = @ \cup (calc.keys
                                                     \cap OptionalFields)]
         ELSE [calc EXCEPT !.pc = "returned",
                           !.optimizer_params = calc.learner_model]
    /\ UNCHANGED poolVars

\* for i in range(flags.num_actors): actor = ctx.Process(...); actor.start()
TrainStartActors ==
    /\ calc.op = "startup" /\ calc.pc = "returned"
    /\ calc' = [calc EXCEPT !.pc = "actors", !.actors_started = NumActors]
    /\ UNCHANGED poolVars

\* for i in range(flags.num_threads): thread.start()
TrainStartThreads ==
    /\ calc.op = "startup" /\ calc.pc = "actors"
    /\ calc' = [calc EXCEPT !.pc = "running", !.threads_started = NumThreads]
    /\ UNCHANGED poolVars

StartupNext ==
    \/ InitLoadExploration
    \/ InitRestore
    \/ TrainStartActors
    \/ TrainStartThreads

StartupSpec == StartupInit /\ [][StartupNext]_vars

\* C19: flags.model = 'vanilla' with a non-empty flags.checkpoint is
\* rejected by init_models_and_states with an error, and no actor process
\* and no learner thread has been started by then or is started afterwards.
C19_VanillaRejected ==
    (calc.model = "vanilla" /\ calc.checkpoint = "model.tar") =>
        /\ calc.pc \in {"init", "raised"}
        /\ calc.pc = "raised" => calc.error = "NotImplementedError"
        /\ calc.actors_started = 0
        /\ calc.threads_started = 0

\* the rejection has happened
C19_Witness ==
    /\ calc.model = "vanilla"
    /\ calc.checkpoint = "model.tar"
    /\ calc.pc = "raised"
    /\ calc.error = "NotImplementedError"
    /\ calc.actors_started = 0

\* C20: whatever subset of the checkpoint fields is present in the file,
\* init_models_and_states completes without error and has restored exactly
\* the fields that are present.
C20_FieldsOptional ==
    (calc.checkpoint = "model.tar" /\ calc.model # "vanilla") =>
        /\ calc.error = "none"
        /\ calc.pc \in {"returned", "actors", "running"}
              => calc.restored = calc.keys

----------------------------------------------------------------------------
\* batch_and_learn for all learner threads (e3b.py:193-217) with the
\* effects of learn on the models (e3b.py:134-147). get_batch returns a
\* batch here whenever it is called; its blocking is followed in Spec.
\* A learn call is named by its number in the order of the learn lock.

\* what init_models_and_states hands to train: with "fresh" models the
\* optimizer holds the parameters of learner_model and actor_model is
\* another random initialisation (version -1); with "continued" models
\* learner_model is the copy made at init_models_and_states.py:153, which
\* the optimizer does not hold
LoopConfigs == {"fresh", "continued"}

LoopInit ==
    /\ PoolInit
    /\ \E c \in LoopConfigs :
         calc = [op |-> "loop",
                 config |-> c,
                 pc |-> [t \in Threads |-> "test"],
                 learn_lock |-> FALSE,
                 log_lock |-> FALSE,
                 learns |-> 0,
                 result |-> [t \in Threads |-> 0],
                 stats |-> 0,
                 frames |-> 0,
                 plogger |-> <<>>,
                 optimizer_steps |-> 0,
                 learner_model |-> 0,
                 actor_model |-> IF c = "fresh" THEN -1 ELSE 0]

\* while frames < flags.total_frames: ... get_batch(...)
LoopTest(t) ==
    /\ calc.op = "loop" /\ calc.pc[t] = "test"
    /\ calc' = [calc EXCEPT
                  !.pc[t] = IF calc.frames < TotalFrames THEN "learn"
                            ELSE "done"]
    /\ UNCHANGED poolVars

\* learn: with lock: ... forward passes, losses, stats
LoopLearnEnter(t) ==
    /\ calc.op = "loop" /\ calc.pc[t] = "learn"
    /\ ~calc.learn_lock
    /\ calc' = [calc EXCEPT !.learn_lock = TRUE, !.pc[t] = "optimize"]
    /\ UNCHANGED poolVars

\* total_loss.backward(); optimizer.step(): the step changes the parameters
\* the optimizer was built on
LoopOptimize(t) ==
    /\ calc.op = "loop" /\ calc.pc[t] = "optimize"
    /\ calc' = [calc EXCEPT
                  !.pc[t] = "publish",
                  !.optimizer_steps = @ + 1,
                  !.learner_model = IF calc.config = "fresh" THEN @ + 1
                                    ELSE @]
    /\ UNCHANGED poolVars

\* actor_model.load_state_dict(learner_model.state_dict()); return stats:
\* the lock is released, the stats are not yet assigned
LoopPublish(t) ==
    /\ calc.op = "loop" /\ calc.pc[t] = "publish"
    /\ calc' = [calc EXCEPT
                  !.pc[t] = "assign",
                  !.actor_model = calc.learner_model,
                  !.learns = @ + 1,
                  !.result[t] = calc.learns + 1,
                  !.learn_lock = FALSE]
    /\ UNCHANGED poolVars

\* stats = learn(...): stats is a nonlocal of train that all threads share
LoopAssign(t) ==
    /\ calc.op = "loop" /\ calc.pc[t] = "assign"
    /\ calc' = [calc EXCEPT !.pc[t] = "log", !.stats = calc.result[t]]
    /\ UNCHANGED poolVars

\* variant: the record is written twice
LoopLogTwice(t) ==
    /\ calc.op = "loop" /\ calc.pc[t] = "log"
    /\ ~calc.log_lock
    /\ LET to_log == [frames |-> calc.frames, stats |-> calc.stats,
                      call |-> calc.result[t]]
       IN calc' = [calc EXCEPT
                     !.pc[t] = "count",
                     !.log_lock = TRUE,
                     !.plogger = @ \o <<to_log, to_log>>]
    /\ UNCHANGED poolVars

\* variant: the log section is entered without the lock
LoopLogNoLock(t) ==
    /\ calc.op = "loop" /\ calc.pc[t] = "log"
    /\ LET to_log == [frames |-> calc.frames, stats |-> calc.stats,
                      call |-> calc.result[t]]
       IN calc' = [calc EXCEPT
                     !.pc[t] = "count",
                     !.log_lock = TRUE,
                     !.plogger = Append(@, to_log)]
    /\ UNCHANGED poolVars

\* with lock: to_log = dict(frames=frames); to_log.update(stats);
\* plogger.log(to_log). The lock is the default argument of
\* batch_and_learn, one for all threads; call records the learn call the
\* logging thread has made.
LoopLog(t) ==
    /\ calc.op = "loop" /\ calc.pc[t] = "log"
    /\ ~calc.log_lock
    /\ LET to_log == [frames |-> calc.frames, stats |-> calc.stats,
                      call |-> calc.result[t]]
       IN calc' = [calc EXCEPT
                     !.pc[t] = "count",
                     !.log_lock = TRUE,
                     !.plogger = Append(@, to_log)]
    /\ UNCHANGED poolVars

\* frames += flags.unroll_length * flags.batch_size; the lock is released
LoopCount(t) ==
    /\ calc.op = "loop" /\ calc.pc[t] = "count"
    /\ calc' = [calc EXCEPT
                  !.pc[t] = "test",
                  !.log_lock = FALSE,
                  !.frames = @ + UnrollLength * BatchSize]
    /\ UNCHANGED poolVars

LoopNext ==
    \/ \E t \in Threads : LoopTest(t)
    \/ \E t \in Threads : LoopLearnEnter(t)
    \/ \E t \in Threads : LoopOptimize(t)
    \/ \E t \in Threads : LoopPublish(t)
    \/ \E t \in Threads : LoopAssign(t)
    \/ \E t \in Threads : LoopLog(t)
    \/ \E t \in Threads : LoopCount(t)

LoopSpec == LoopInit /\ [][LoopNext]_vars

\* threads between the return of learn and their log call
LoopPending == {t \in Threads : calc.pc[t] \in {"assign", "log"}}

\* C21: the number of plogger.log calls equals the number of completed
\* learn calls whenever no thread is between the return of learn and its
\* log call; in between the difference is the number of such threads.
C21_OneRecordPerStep ==
    /\ Len(calc.plogger) + Cardinality(LoopPending) = calc.learns
    /\ LoopPending = {} => Len(calc.plogger) = calc.learns

\* two learn calls have been logged, no thread is about to log and a
\* further step is under way
C21_Witness ==
    /\ LoopPending = {}
    /\ Len(calc.plogger) >= 2
    /\ \E i, j \in 1 .. Len(calc.plogger) :
         calc.plogger[i].call # calc.plogger[j].call
    /\ \E t \in Threads : calc.pc[t] = "optimize"

\* C22: once a learning step has completed and no learner thread is inside
\* the critical section of learn, the parameters of the actor model are
\* those of the learner model, and they are the ones produced by the
\* optimizer update of the last completed step: the published version is
\* the number of completed steps, so it never decreases.
C22_PublishedParameters ==
    (calc.learns > 0 /\ ~calc.learn_lock)
        => /\ calc.actor_model = calc.learner_model
           /\ calc.actor_model = calc.learns
           /\ calc.optimizer_steps = calc.learns

\* C23: every record a thread logs holds the stats its own learn call has
\* returned: no learn call's stats are logged twice and, once no thread is
\* about to log, none are missing.
C23_OwnStats ==
    /\ \A i \in 1 .. Len(calc.plogger) :
         calc.plogger[i].stats = calc.plogger[i].call
    /\ \A i, j \in 1 .. Len(calc.plogger) :
         i # j => calc.plogger[i].stats # calc.plogger[j].stats
    /\ LoopPending = {}
          => {calc.plogger[i].stats : i \in 1 .. Len(calc.plogger)}
             = 1 .. calc.learns

\* threads inside the log section that have written their record
LoopCounting == {t \in Threads : calc.pc[t] = "count"}

\* C24: frames is unroll_length * batch_size times the number of completed
\* log sections, and the frames values written to the log start at 0 and
\* grow from one record to the next by exactly unroll_length * batch_size
\* (so they are pairwise distinct), for every interleaving of the threads.
C24_FrameCounter ==
    /\ calc.frames = UnrollLength * BatchSize
                     * (Len(calc.plogger) - Cardinality(LoopCounting))
    /\ \A i \in 1 .. Len(calc.plogger) :
         calc.plogger[i].frames = UnrollLength * BatchSize * (i - 1)

\* two threads have been in front of the log section at once and both
\* increments are in the counter
C24_Witness ==
    /\ Len(calc.plogger) >= 2
    /\ calc.plogger[1].call # calc.plogger[1].stats
    /\ calc.frames = UnrollLength * BatchSize * 2

----------------------------------------------------------------------------
\* C25: when all learner threads have left their loop at its test,
\* total_frames <= frames < total_frames + num_threads * unroll_length *
\* batch_size: every thread overshoots the target by at most one step.
C25_Overshoot ==
    AllThreadsDone =>
        /\ TotalFrames <= frames
        /\ frames < TotalFrames + NumThreads * UnrollLength * BatchSize

\* all threads have ended and the target is overshot by one step of every
\* thread but one
C25_Witness ==
    /\ AllThreadsDone
    /\ frames = TotalFrames + (NumThreads - 1) * UnrollLength * BatchSize
    /\ mainPc = "closed"

\* actors that have neither stopped nor died
LiveActors == {a \in Actors : actorPc[a] \in {"acquire", "rollout"}}

\* C26: with num_buffers >= batch_size and at least one live actor the pool
\* is never, before the frame target is met, in a state where every live
\* actor is blocked on the free queue and every learner thread is blocked
\* on the full queue.
C26_NoDeadlock ==
    ~(/\ NumBuffers >= BatchSize
      /\ frames < TotalFrames
      /\ LiveActors # {}
      /\ \A a \in LiveActors : actorPc[a] = "acquire" /\ ~ENABLED ActorAcquire(a)
      /\ \A t \in Threads :
           threadPc[t] = "get_batch" /\ ~ENABLED GetBatchAcquire(t))

\* C27: when init_models_and_states has returned, learner_model_optimizer
\* holds the parameters of the learner_model that is returned, in every
\* configuration.
C27_OptimizerBound ==
    calc.pc \in {"returned", "actors", "running"}
        => calc.optimizer_params = calc.learner_model

\* ---------------------------------------------------------------------
\* A run of train that saves its checkpoint, followed by a second run
\* started on the saved file.

\* e3b.py:235-244: the keys of the dict e3b's checkpoint saves
E3bSavedKeys ==
    {"actor_model_state_dict", "state_embedding_model_state_dict",
     "inverse_dynamics_model_state_dict",
     "learner_model_optimizer_state_dict",
     "state_embedding_optimizer_state_dict",
     "inverse_dynamics_optimizer_state_dict", "scheduler_state_dict",
     "flags"}

\* RNDxE3B.py:259-272: the keys of the dict RNDxE3B's checkpoint saves
RndSavedKeys ==
    E3bSavedKeys \cup
    {"random_target_network_state_dict", "predictor_network_state_dict",
     "actor_exploration_model_state_dict", "predictor_optimizer_state_dict"}

Savers == {"e3b", "RNDxE3B"}

\* the first run is about to save: its train function, whether it has an
\* exploration model, and the flags the second run is started with
RoundTripInit ==
    /\ PoolInit
    /\ \E sv \in Savers, ex \in BOOLEAN, mo \in ModelNames,
          cp \in CheckpointPaths, cl \in BOOLEAN :
         calc = [op |-> "startup", pc |-> "checkpoint",
                 saver |-> sv, saved_exploration |-> ex,
                 model |-> mo, checkpoint |-> cp, continue_learning |-> cl,
                 keys |-> {}, none_keys |-> {},
                 error |-> "none", restored |-> {},
                 exploration_model |-> "None",
                 learner_model |-> "created", optimizer_params |-> "None",
                 actors_started |-> 0, threads_started |-> 0]

\* checkpoint(frames) of train: torch.save of the dict; RNDxE3B stores None
\* under actor_exploration_model_state_dict when it has no exploration
\* model
TrainCheckpoint ==
    /\ calc.op = "startup" /\ calc.pc = "checkpoint"
    /\ calc' = [calc EXCEPT
                  !.pc = "init",
                  !.keys = IF calc.saver = "e3b"
                           THEN E3bSavedKeys ELSE RndSavedKeys,
                  !.none_keys =
                      IF calc.saver = "RNDxE3B" /\ ~calc.saved_exploration
                      THEN {"actor_exploration_model_state_dict"}
                      ELSE {}]
    /\ UNCHANGED poolVars

RoundTripNext ==
    \/ TrainCheckpoint
    \/ InitLoadExploration
    \/ InitRestore
    \/ TrainStartActors
    \/ TrainStartThreads

RoundTripSpec == RoundTripInit /\ [][RoundTripNext]_vars

\* C28: a checkpoint saved by the checkpoint function of e3b's or
\* RNDxE3B's train, with or without an exploration model, is loaded by
\* init_models_and_states of e3b or RNDxE3B with flags.continue_learning
\* set without an error being raised.
C28_RoundTrip ==
    (/\ calc.pc # "checkpoint"
     /\ calc.checkpoint = "model.tar"
     /\ calc.continue_learning
     /\ calc.model # "vanilla") => calc.error = "none"
====
